---- MODULE Spec2Model ----
(***************************************************************************)
(* A model of license_summary.py: main, extract_roles (the row scan over   *)
(* the license report and the aggregation of per-user role sets into role  *)
(* combinations) and the call of write_results_to_excel_file.              *)
(*                                                                         *)
(* Python strings are sequences of one-character strings, so that split,   *)
(* strip, join, sorted and str() are computed as Python computes them.     *)
(* A dict is the sequence of its items [k, v] in insertion order.          *)
(***************************************************************************)
EXTENDS Naturals, Sequences, FiniteSets, TLC

(***************************************************************************)
(* Bounds of the model.                                                    *)
(***************************************************************************)
\* A report is the concatenation of at most MaxBlocks segments of Segments.
MaxBlocks == 3

(***************************************************************************)
(* Strings.                                                                *)
(***************************************************************************)
\* The characters the model uses, in code point order.
Alphabet ==
    << " ", "+", ",",
       "A", "B", "C", "F", "H", "M", "N", "P", "R", "S",
       "a", "c", "e", "i", "j", "l", "m", "n", "o", "r", "s", "t", "u",
       "x", "y" >>

\* The rank of a character in code point order (Python compares str by it).
Ord(c) == CHOOSE n \in 1..Len(Alphabet) : Alphabet[n] = c

\* a < b for Python strings: lexicographic by code point.
RECURSIVE StrLess(_, _)
StrLess(a, b) ==
    IF b = <<>> THEN FALSE
    ELSE IF a = <<>> THEN TRUE
    ELSE IF Head(a) = Head(b) THEN StrLess(Tail(a), Tail(b))
    ELSE Ord(Head(a)) < Ord(Head(b))

\* str.strip(): leading and trailing whitespace removed.
RECURSIVE LStrip(_)
LStrip(s) == IF s # <<>> /\ Head(s) = " " THEN LStrip(Tail(s)) ELSE s

RECURSIVE RStrip(_)
RStrip(s) ==
    IF s # <<>> /\ s[Len(s)] = " " THEN RStrip(SubSeq(s, 1, Len(s) - 1)) ELSE s

Strip(s) == RStrip(LStrip(s))

\* str.split(','): the pieces between the commas, empty pieces included.
RECURSIVE SplitFrom(_, _)
SplitFrom(s, piece) ==
    IF s = <<>> THEN << piece >>
    ELSE IF Head(s) = "," THEN << piece >> \o SplitFrom(Tail(s), <<>>)
    ELSE SplitFrom(Tail(s), Append(piece, Head(s)))

Split(s) == SplitFrom(s, <<>>)

\* sep.join(list)
RECURSIVE Join(_, _)
Join(sep, list) ==
    IF list = <<>> THEN <<>>
    ELSE IF Len(list) = 1 THEN list[1]
    ELSE list[1] \o sep \o Join(sep, Tail(list))

Range(seq) == { seq[n] : n \in DOMAIN seq }

\* sorted(strings): ascending, for a collection of distinct strings.
RECURSIVE SortedSet(_)
SortedSet(S) ==
    IF S = {} THEN <<>>
    ELSE LET m == CHOOSE a \in S : \A b \in S \ {a} : StrLess(a, b)
         IN  << m >> \o SortedSet(S \ {m})

Sorted(roles) == SortedSet(Range(roles))

(***************************************************************************)
(* The literals of the source.                                             *)
(***************************************************************************)
AliasMarker == << "A", "l", "i", "a", "s" >>
SecurityRoleMarker ==
    << "S", "e", "c", "u", "r", "i", "t", "y", " ", "R", "o", "l", "e" >>
NanText == << "n", "a", "n" >>
NoneText == << "N", "o", "n", "e" >>
PlusSep == << " ", "+", " " >>
CommaSep == << ",", " " >>

Finance == << "F", "i", "n", "a", "n", "c", "e" >>
SCM == << "S", "C", "M" >>
Commerce == << "C", "o", "m", "m", "e", "r", "c", "e" >>
Project == << "P", "r", "o", "j", "e", "c", "t" >>
HR == << "H", "R" >>
\* The five license categories, in the order the code tests them.
Categories == << Finance, SCM, Commerce, Project, HR >>

(***************************************************************************)
(* Cells and rows. A cell is a str or None; a row keeps the two columns    *)
(* the scan reads, column 3 and column 5.                                  *)
(***************************************************************************)
StrCell(s) == [isstr |-> TRUE, s |-> s]
NoneCell == [isstr |-> FALSE, s |-> <<>>]

\* str(cell)
PyStr(cell) == IF cell.isstr THEN cell.s ELSE NoneText

Row(c3, c5) == [c3 |-> c3, c5 |-> c5]

\* isinstance(row.iloc[3], str) and row.iloc[3].strip() == "Alias"
IsAliasHeader(row) == row.c3.isstr /\ Strip(row.c3.s) = AliasMarker

\* isinstance(row.iloc[5], str) and row.iloc[5].strip() == "Security Role"
IsSecurityRoleHeader(row) == row.c5.isstr /\ Strip(row.c5.s) = SecurityRoleMarker

(***************************************************************************)
(* Dicts: the sequence of items in insertion order.                        *)
(***************************************************************************)
DictKeys(d) == { d[n].k : n \in DOMAIN d }

DictHas(d, key) == key \in DictKeys(d)

DictIndex(d, key) == CHOOSE n \in DOMAIN d : d[n].k = key

DictGet(d, key) == d[DictIndex(d, key)].v

\* d.get(key, default)
DictGetOr(d, key, default) == IF DictHas(d, key) THEN DictGet(d, key) ELSE default

\* d[key] = value: an existing key keeps its position, a new one goes last.
DictSet(d, key, value) ==
    IF DictHas(d, key)
    THEN [d EXCEPT ![DictIndex(d, key)] = [k |-> key, v |-> value]]
    ELSE Append(d, [k |-> key, v |-> value])

(***************************************************************************)
(* The role catalogs load_roles_from_file may return: role name -> the     *)
(* five license flags.                                                     *)
(***************************************************************************)
CategorySet == Range(Categories)

\* The licenses dict of one catalog row: the flags of `required` are True.
Licenses(required) == [c \in CategorySet |-> c \in required]

RoleA == << "A" >>
RoleB == << "B" >>
RoleC == << "C" >>
RoleAPlusB == << "A", " ", "+", " ", "B" >>

CatalogEmpty == <<>>
CatalogBasic ==
    << [k |-> RoleA, v |-> Licenses({Finance})],
       [k |-> RoleB, v |-> Licenses({SCM})],
       [k |-> RoleC, v |-> Licenses({})] >>
CatalogPlus ==
    << [k |-> RoleA, v |-> Licenses({Finance})],
       [k |-> RoleB, v |-> Licenses({SCM})],
       [k |-> RoleAPlusB, v |-> Licenses({HR})] >>
CatalogSet == { CatalogEmpty, CatalogBasic, CatalogPlus }

(***************************************************************************)
(* The license reports: the rows sheet.iter_rows(min_row=20) yields, and   *)
(* the width of the DataFrame built from them.                             *)
(***************************************************************************)
HeaderRow == Row(StrCell(AliasMarker), NoneCell)
PaddedHeaderRow == Row(StrCell(<< " " >> \o AliasMarker \o << " " >>), NoneCell)
UserRow(cell) == Row(cell, NoneCell)
SecurityRoleRow == Row(NoneCell, StrCell(SecurityRoleMarker))
PaddedSecurityRoleRow == Row(NoneCell, StrCell(<< " " >> \o SecurityRoleMarker))
RolesRow(cell) == Row(NoneCell, cell)
BlankRow == Row(NoneCell, NoneCell)

UserX == StrCell(<< "x" >>)
UserY == StrCell(<< "y" >>)
AliasCells == { UserX, UserY }

RolesAB == StrCell(<< "A", ",", " ", "B" >>)
RolesBA == StrCell(<< "B", ",", " ", "A" >>)
RolesAPlusB == StrCell(RoleAPlusB)
RolesC == StrCell(RoleC)
RolesCA == StrCell(<< "C", ",", "A" >>)
RolesPadded == StrCell(<< " ", "B", " ", ",", "A", " " >>)
RoleCells == { RolesAB, RolesBA, RolesAPlusB, RolesC }

\* A well-formed user block: header, alias row, role header, one role row.
GoodBlocks ==
    { << HeaderRow, UserRow(a), SecurityRoleRow, RolesRow(r) >> :
        a \in AliasCells, r \in RoleCells }

\* Pieces of blocks, malformed blocks and stray rows.
OddSegments ==
    { << HeaderRow >>,
      << HeaderRow, UserRow(UserX) >>,
      << BlankRow >>,
      << SecurityRoleRow >>,
      << RolesRow(RolesCA) >>,
      << HeaderRow, UserRow(NoneCell), SecurityRoleRow, RolesRow(RolesAB) >>,
      << HeaderRow, UserRow(UserY), BlankRow, SecurityRoleRow, RolesRow(RolesAB) >>,
      << PaddedHeaderRow, UserRow(UserX), PaddedSecurityRoleRow, RolesRow(RolesPadded) >> }

Segments == GoodBlocks \cup OddSegments

RECURSIVE Tables(_)
Tables(n) ==
    IF n = 0 THEN { <<>> }
    ELSE LET shorter == Tables(n - 1)
         IN  shorter \cup { t \o s : t \in shorter, s \in Segments }

\* A sheet of at least six columns holds columns 3 and 5.
WideSheets == { [ncols |-> 6, rows |-> t] : t \in Tables(MaxBlocks) }

\* A sheet of fewer columns: the cells of the missing columns do not exist.
NarrowSheets ==
    { [ncols |-> 3, rows |-> << BlankRow >>],
      [ncols |-> 5, rows |-> << HeaderRow >>],
      [ncols |-> 5, rows |-> << HeaderRow, UserRow(UserX) >>],
      [ncols |-> 5, rows |-> << HeaderRow, UserRow(UserX), BlankRow >>] }

Sheets == WideSheets \cup NarrowSheets

(***************************************************************************)
(* The state of one run of the command.                                    *)
(***************************************************************************)
VARIABLES
    pc,                    \* where the run stands
    target_roles,          \* the role catalog (dict role -> licenses)
    wb,                    \* the workbook handle: "unopened", "open", "closed"
    ncols,                 \* the number of columns of df
    df,                    \* the data rows
    i,                     \* the scan cursor, a 0-based row index
    current_user,          \* the alias of the block being read, or None
    user_roles,            \* dict alias -> matched roles, in discovery order
    headers,               \* the rows logged as "Found Alias header at row i"
    k,                     \* the position of the aggregation loop in user_roles
    role_counts,           \* dict combination -> number of users
    license_requirements,  \* dict combination -> combined licenses
    combination_types,     \* dict signature -> dict combination -> count
    results,               \* what extract_roles returned
    raised,                \* the top-level handler of extract_roles ran
    written,               \* write_results_to_excel_file was called
    excel_exists,          \* os.path.exists(excel_file)
    roles_exists,          \* os.path.exists(roles_file)
    exit_status,           \* the status the process exits with
    hash_seed,             \* the str hash seed of the process (PYTHONHASHSEED)
    run,                   \* 1 in the first run over the rows, 2 in the second
    prev_results,          \* what the first run returned, during the second
    sheet                  \* the cells of the report sheet that hold a value

vars ==
    << pc, target_roles, wb, ncols, df, i, current_user, user_roles, headers, k,
       role_counts, license_requirements, combination_types, results, raised,
       written, excel_exists, roles_exists, exit_status, hash_seed, run,
       prev_results, sheet >>

scan_vars == << i, current_user, user_roles, headers >>
agg_vars == << k, role_counts, license_requirements, combination_types >>
env_vars == << excel_exists, roles_exists, hash_seed, run, prev_results >>
out_vars == << written, exit_status, sheet >>

\* return [], {}, {}
EmptyResults ==
    [sorted_combinations |-> <<>>, license_requirements |-> <<>>,
     combination_types |-> <<>>]

Init ==
    /\ pc = "main"
    /\ target_roles = <<>>
    /\ wb = "unopened"
    /\ ncols = 0
    /\ df = <<>>
    /\ i = 0
    /\ current_user = NoneCell
    /\ user_roles = <<>>
    /\ headers = {}
    /\ k = 1
    /\ role_counts = <<>>
    /\ license_requirements = <<>>
    /\ combination_types = <<>>
    /\ results = EmptyResults
    /\ raised = FALSE
    /\ written = FALSE
    /\ excel_exists \in BOOLEAN
    /\ roles_exists \in BOOLEAN
    /\ exit_status = 0
    /\ hash_seed = 0
    /\ run = 1
    /\ prev_results = EmptyResults
    /\ sheet = {}

(***************************************************************************)
(* main, up to the call of extract_roles.                                  *)
(***************************************************************************)
\* Both paths must exist; otherwise main logs the error and returns.
MainCheckFiles ==
    /\ pc = "main"
    /\ pc' = IF excel_exists /\ roles_exists THEN "extract" ELSE "done"
    /\ UNCHANGED << target_roles, wb, ncols, df, scan_vars, agg_vars, results,
                    raised, out_vars, env_vars >>

(***************************************************************************)
(* extract_roles: the catalog and the workbook.                            *)
(***************************************************************************)
LoadRoles ==
    /\ pc = "extract"
    /\ \E catalog \in CatalogSet :
         /\ target_roles' = catalog
         /\ IF catalog = <<>>
            THEN pc' = "returned" /\ results' = EmptyResults
            ELSE pc' = "open" /\ UNCHANGED results
    /\ UNCHANGED << wb, ncols, df, scan_vars, agg_vars, raised, out_vars, env_vars >>

\* load_workbook, the rows from row 20 on, the DataFrame, the empty check.
OpenWorkbook ==
    /\ pc = "open"
    /\ \E active \in Sheets :
         /\ wb' = "open"
         /\ df' = active.rows
         /\ ncols' = active.ncols
         /\ IF Len(active.rows) = 0
            THEN pc' = "returned" /\ results' = EmptyResults
            ELSE pc' = "scan" /\ UNCHANGED results
    /\ UNCHANGED << target_roles, scan_vars, agg_vars, raised, out_vars, env_vars >>

\* load_workbook raises: the file is no workbook.
OpenWorkbookFails ==
    /\ pc = "open"
    /\ pc' = "except"
    /\ UNCHANGED << target_roles, wb, ncols, df, scan_vars, agg_vars, results,
                    raised, out_vars, env_vars >>

(***************************************************************************)
(* extract_roles: the scan.                                                *)
(***************************************************************************)
\* A slip: the role header is sought one row further down.
SecHeaderIndexAfterGap(h) == h + 3

\* The row checked for "Security Role", for a header at row h: i += 2.
SecHeaderIndex(h) == h + 2

\* A slip: the role loop breaks without backing up.
AfterBreakNoBackup(j) == j + 1

\* The cursor after the role loop breaks at row j: i -= 1, break, i += 1.
AfterBreak(j) == (j - 1) + 1

\* A slip: the outer loop ends an iteration without moving the cursor.
NextRowStay(n) == n

\* The i += 1 that ends every iteration of the outer loop.
NextRow(n) == n + 1

\* A slip: the pieces are matched without trimming them.
MatchingRolesUntrimmed(cell) ==
    SelectSeq(Split(cell.s), LAMBDA r : DictHas(target_roles, r))

\* The roles of one role cell that are in the catalog, in the cell's order.
MatchingRoles(cell) ==
    LET roles == [n \in DOMAIN Split(cell.s) |-> Strip(Split(cell.s)[n])]
    IN  SelectSeq(roles, LAMBDA r : DictHas(target_roles, r))

\* set.update(list): the new elements join the set.
RECURSIVE SetUpdate(_, _)
SetUpdate(roles, list) ==
    IF list = <<>> THEN roles
    ELSE SetUpdate(IF Head(list) \in Range(roles) THEN roles
                   ELSE Append(roles, Head(list)),
                   Tail(list))

\* The user's roles after one row of the role loop.
CollectedRoles(roles, role_row) ==
    IF role_row.c5.isstr /\ PyStr(role_row.c5) # NanText
       /\ MatchingRoles(role_row.c5) # <<>>
    THEN SetUpdate(roles, MatchingRoles(role_row.c5))
    ELSE roles

\* A slip: every block of an alias starts from an empty role set.
RegisterReset(users, alias) == DictSet(users, alias, <<>>)

\* An alias gets an empty role set the first time it is seen, and keeps the
\* set it has when it is seen again.
Register(users, alias) ==
    IF DictHas(users, alias) THEN users ELSE DictSet(users, alias, <<>>)

\* One iteration of the outer loop, up to the role loop.
ScanRow ==
    /\ pc = "scan"
    /\ i < Len(df)
    /\ IF ncols <= 3
       THEN \* row.iloc[3] raises IndexError
            /\ pc' = "except"
            /\ UNCHANGED scan_vars
       ELSE IF ~IsAliasHeader(df[i + 1])
       THEN /\ i' = NextRow(i)
            /\ pc' = "scan"
            /\ UNCHANGED << current_user, user_roles, headers >>
       ELSE /\ headers' = headers \cup {i}
            /\ IF i + 1 < Len(df)
               THEN LET alias == PyStr(df[i + 2].c3)
                        j == SecHeaderIndex(i)
                    IN  /\ current_user' = StrCell(alias)
                        /\ user_roles' = Register(user_roles, alias)
                        /\ IF j < Len(df) /\ ncols <= 5
                           THEN \* role_header_row.iloc[5] raises IndexError
                                /\ pc' = "except"
                                /\ i' = j
                           ELSE /\ i' = NextRow(j)
                                /\ pc' = IF j < Len(df) /\ IsSecurityRoleHeader(df[j + 1])
                                         THEN "collect" ELSE "scan"
               ELSE /\ i' = NextRow(i)
                    /\ pc' = "scan"
                    /\ UNCHANGED << current_user, user_roles >>
    /\ UNCHANGED << target_roles, wb, ncols, df, agg_vars, results, raised, out_vars, env_vars >>

\* One iteration of the role loop, or its end and the i += 1 that follows.
CollectRow ==
    /\ pc = "collect"
    /\ IF i < Len(df)
       THEN IF IsAliasHeader(df[i + 1])
            THEN /\ i' = AfterBreak(i)
                 /\ pc' = "scan"
                 /\ UNCHANGED user_roles
            ELSE /\ user_roles' =
                      DictSet(user_roles, current_user.s,
                              CollectedRoles(DictGet(user_roles, current_user.s),
                                             df[i + 1]))
                 /\ i' = i + 1
                 /\ pc' = "collect"
       ELSE /\ i' = NextRow(i)
            /\ pc' = "scan"
            /\ UNCHANGED user_roles
    /\ UNCHANGED << target_roles, wb, ncols, df, current_user, headers, agg_vars,
                    results, raised, out_vars, env_vars >>

\* The outer loop ends.
ScanEnd ==
    /\ pc = "scan"
    /\ i >= Len(df)
    /\ pc' = "aggregate"
    /\ UNCHANGED << target_roles, wb, ncols, df, scan_vars, agg_vars, results,
                    raised, out_vars, env_vars >>

(***************************************************************************)
(* extract_roles: the aggregation.                                         *)
(***************************************************************************)
\* The order in which a set of str hands out its elements: it depends on the
\* hash seed of the process, not only on the order of insertion.
Reverse(s) == [n \in DOMAIN s |-> s[(Len(s) + 1) - n]]
SetOrder(roles) == IF hash_seed = 0 THEN roles ELSE Reverse(roles)

\* A slip: the roles are joined in the order of their discovery.
RoleListUnsorted(roles) == roles

\* role_list = sorted(roles)
RoleList(roles) == Sorted(roles)

\* role_combination = ' + '.join(role_list)
RoleCombination(roles) == Join(PlusSep, RoleList(roles))

\* A slip: the count starts over for every user.
NextCountReset(counts, key) == 1

\* role_counts.get(role_combination, 0) + 1
NextCount(counts, key) == DictGetOr(counts, key, 0) + 1

\* combined_licenses[license_type] |= role_licenses[license_type], role by role.
RECURSIVE CombinedLicenses(_, _)
CombinedLicenses(combined, role_list) ==
    IF role_list = <<>> THEN combined
    ELSE CombinedLicenses(
             [c \in CategorySet |->
                 combined[c] \/ DictGet(target_roles, Head(role_list))[c]],
             Tail(role_list))

\* type_str: the names of the true categories, in the fixed order, joined.
TypeStr(combined) ==
    Join(CommaSep, SelectSeq(Categories, LAMBDA c : combined[c]))

\* combination_types[type_str][role_combination] = count
TypesSet(types, type_str, key, count) ==
    DictSet(types, type_str, DictSet(DictGetOr(types, type_str, <<>>), key, count))

\* One iteration of the loop over user_roles.items().
AggregateUser ==
    /\ pc = "aggregate"
    /\ k <= Len(user_roles)
    /\ LET roles == SetOrder(user_roles[k].v)
           key == RoleCombination(roles)
           combined == CombinedLicenses(Licenses({}), RoleList(roles))
           count == NextCount(role_counts, key)
       IN  IF roles # <<>>
           THEN /\ role_counts' = DictSet(role_counts, key, count)
                /\ license_requirements' =
                     DictSet(license_requirements, key, combined)
                /\ combination_types' =
                     TypesSet(combination_types, TypeStr(combined), key, count)
           ELSE UNCHANGED << role_counts, license_requirements, combination_types >>
    /\ k' = k + 1
    /\ UNCHANGED << pc, target_roles, wb, ncols, df, scan_vars, results, raised,
                    out_vars, env_vars >>

\* sorted(items, key=count, reverse=True): stable, equal counts keep their order.
RECURSIVE InsertByCount(_, _)
InsertByCount(sorted, item) ==
    IF sorted = <<>> THEN << item >>
    ELSE IF Head(sorted).v >= item.v
    THEN << Head(sorted) >> \o InsertByCount(Tail(sorted), item)
    ELSE << item >> \o sorted

\* A slip: an unstable ranking, where a later item passes the items of the
\* same count.
RECURSIVE InsertByCountStrict(_, _)
InsertByCountStrict(sorted, item) ==
    IF sorted = <<>> THEN << item >>
    ELSE IF Head(sorted).v > item.v
    THEN << Head(sorted) >> \o InsertByCountStrict(Tail(sorted), item)
    ELSE << item >> \o sorted

RECURSIVE SortedByCountUnstable(_)
SortedByCountUnstable(items) ==
    IF items = <<>> THEN <<>>
    ELSE InsertByCountStrict(
             SortedByCountUnstable(SubSeq(items, 1, Len(items) - 1)),
             items[Len(items)])

RECURSIVE SortedByCount(_)
SortedByCount(items) ==
    IF items = <<>> THEN <<>>
    ELSE InsertByCount(SortedByCount(SubSeq(items, 1, Len(items) - 1)),
                       items[Len(items)])

\* The loop is over: the ranking, wb.close() and the return.
Finish ==
    /\ pc = "aggregate"
    /\ k > Len(user_roles)
    /\ wb' = "closed"
    /\ results' =
         [sorted_combinations |-> SortedByCount(role_counts),
          license_requirements |-> license_requirements,
          combination_types |-> combination_types]
    /\ pc' = "returned"
    /\ UNCHANGED << target_roles, ncols, df, scan_vars, agg_vars, raised, out_vars, env_vars >>

\* except Exception: log, print the traceback, return [], {}, {}
HandleException ==
    /\ pc = "except"
    /\ raised' = TRUE
    /\ results' = EmptyResults
    /\ pc' = "returned"
    /\ UNCHANGED << target_roles, wb, ncols, df, scan_vars, agg_vars,
                    out_vars, env_vars >>

(***************************************************************************)
(* main, after extract_roles.                                              *)
(***************************************************************************)
\* A slip: main writes the report whatever extract_roles returned.
HasResultsAlways == TRUE

\* if results[0]
HasResults == results.sorted_combinations # <<>>

(***************************************************************************)
(* write_results_to_excel_file. A cell is its row, its column (1 is A) and *)
(* its value, a text or a number.                                          *)
(***************************************************************************)
TextValue(s) == [isnum |-> FALSE, text |-> s, num |-> 0]
NumValue(n) == [isnum |-> TRUE, text |-> <<>>, num |-> n]
Cell(row, col, value) == [row |-> row, col |-> col, val |-> value]

\* cell.value = value: the cell holds the last value written to it.
SetCell(cells, row, col, value) ==
    { c \in cells : ~(c.row = row /\ c.col = col) } \cup { Cell(row, col, value) }

CountText == << "C", "o", "u", "n", "t" >>
RoleCombinationText ==
    << "R", "o", "l", "e", " ", "C", "o", "m", "b", "i", "n", "a", "t", "i", "o",
       "n" >>
TotalText == << "T", "o", "t", "a", "l" >>

\* The characters from 'A' on, in code point order: chr and ord over them
\* ("grave" stands for the grave accent, code point 96).
AsciiFromA ==
    << "A", "B", "C", "D", "E", "F", "G", "H", "I", "J", "K", "L", "M", "N", "O",
       "P", "Q", "R", "S", "T", "U", "V", "W", "X", "Y", "Z",
       "[", "\\", "]", "^", "_", "grave",
       "a", "b", "c", "d", "e", "f", "g", "h" >>
OrdFromA(c) == (CHOOSE n \in DOMAIN AsciiFromA : AsciiFromA[n] = c) - 1
ChrFromA(n) == AsciiFromA[n + 1]

\* col_letter = chr(ord('I') + i)
ColLetter(n) == ChrFromA(OrdFromA("I") + n)

\* sheet[cell_ref] takes a column letter of either case and raises ValueError
\* for a reference that does not start with a letter.
IsUpper(c) == OrdFromA(c) <= OrdFromA("Z")
IsLower(c) == OrdFromA(c) >= OrdFromA("a")
ValidRef(c) == IsUpper(c) \/ IsLower(c)
ColumnOfLetter(c) ==
    IF IsUpper(c) THEN OrdFromA(c) + 1 ELSE (OrdFromA(c) - OrdFromA("a")) + 1

\* The keys of a dict, in its order.
KeyList(d) == [n \in DOMAIN d |-> d[n].k]

\* ordered_combinations = sorted(results[2].keys())
OrderedCombinations(res) == Sorted(KeyList(res.combination_types))

\* The headers list: (cell reference, value), the width left out.
LicenseHeaders ==
    [n \in DOMAIN Categories |-> [ref |-> ChrFromA(OrdFromA("C") + (n - 1)),
                                  value |-> Categories[n]]]
CombinationHeaders(res) ==
    LET ordered_combinations == OrderedCombinations(res)
    IN  [n \in DOMAIN ordered_combinations |->
            [ref |-> ColLetter(n - 1), value |-> ordered_combinations[n]]]
HeaderList(res) ==
    << [ref |-> "A", value |-> CountText],
       [ref |-> "B", value |-> RoleCombinationText] >>
    \o (IF res.license_requirements # <<>> THEN LicenseHeaders ELSE <<>>)
    \o (IF res.combination_types # <<>>
        THEN << [ref |-> "H", value |-> <<>>] >> \o CombinationHeaders(res)
        ELSE <<>>)

\* The loop that writes the headers: it stops at the first reference that
\* sheet[cell_ref] rejects.
RECURSIVE WriteHeaders(_, _)
WriteHeaders(cells, hdrs) ==
    IF hdrs = <<>> THEN [sheet |-> cells, raised |-> FALSE]
    ELSE IF ~ValidRef(Head(hdrs).ref) THEN [sheet |-> cells, raised |-> TRUE]
    ELSE WriteHeaders(SetCell(cells, 1, ColumnOfLetter(Head(hdrs).ref),
                              TextValue(Head(hdrs).value)),
                      Tail(hdrs))
HasLicenseInfo(res) == res.license_requirements # <<>>
HasLicenseCombinations(res) == res.combination_types # <<>>

\* enumerate([...], start=3) over the five categories, n counted from 1.
LicenseColumn(n) == n + 2

\* col = ord('I') - ord('A') + j, then column=col + 1, j counted from 0.
GroupColumn(j) == ((OrdFromA("I") - OrdFromA("A")) + j) + 1

\* The data row of the r-th ranked combination writes a license column.
WritesLicense(res, r, n) ==
    LET combination == res.sorted_combinations[r].k
    IN  /\ HasLicenseInfo(res)
        /\ DictHas(res.license_requirements, combination)
        /\ DictGet(res.license_requirements, combination)[Categories[n]]

\* The same for the column of a signature group: combination in combinations.
WritesGroup(res, r, combo_type) ==
    /\ HasLicenseCombinations(res)
    /\ DictHas(DictGet(res.combination_types, combo_type),
               res.sorted_combinations[r].k)

\* license_combinations[combo_type]
GroupValue(res, r, combo_type) ==
    DictGet(DictGet(res.combination_types, combo_type),
            res.sorted_combinations[r].k)

\* The cells of one data row; the rows start at row 2.
RowCells(res, ordered_combinations, r) ==
    LET count == res.sorted_combinations[r].v
        row == r + 1
    IN  { Cell(row, 1, NumValue(count)),
          Cell(row, 2, TextValue(res.sorted_combinations[r].k)) }
        \cup { Cell(row, LicenseColumn(n), NumValue(count)) :
                 n \in { m \in DOMAIN Categories : WritesLicense(res, r, m) } }
        \cup { Cell(row, GroupColumn(g - 1),
                    NumValue(GroupValue(res, r, ordered_combinations[g]))) :
                 g \in { m \in DOMAIN ordered_combinations :
                           WritesGroup(res, r, ordered_combinations[m]) } }

DataCells(res, ordered_combinations) ==
    UNION { RowCells(res, ordered_combinations, r) :
              r \in DOMAIN res.sorted_combinations }

RECURSIVE SumSeq(_)
SumSeq(numbers) ==
    IF numbers = <<>> THEN 0 ELSE Head(numbers) + SumSeq(Tail(numbers))

\* The summary row: 'Total' and the sum of each column over the data rows,
\* an empty cell counting as 0.
TotalCells(res, ordered_combinations) ==
    LET rows == DOMAIN res.sorted_combinations
        last_row == Len(res.sorted_combinations) + 2
    IN  { Cell(last_row, 2, TextValue(TotalText)),
          Cell(last_row, 1,
               NumValue(SumSeq([r \in rows |-> res.sorted_combinations[r].v]))) }
        \cup ( IF HasLicenseInfo(res)
               THEN { Cell(last_row, LicenseColumn(n),
                           NumValue(SumSeq([r \in rows |->
                               IF WritesLicense(res, r, n)
                               THEN res.sorted_combinations[r].v ELSE 0]))) :
                        n \in DOMAIN Categories }
               ELSE {} )
        \cup ( IF HasLicenseCombinations(res)
               THEN { Cell(last_row, GroupColumn(g - 1),
                           NumValue(SumSeq([r \in rows |->
                               IF WritesGroup(res, r, ordered_combinations[g])
                               THEN GroupValue(res, r, ordered_combinations[g])
                               ELSE 0]))) :
                        g \in DOMAIN ordered_combinations }
               ELSE {} )

\* The whole writer: the headers, then the data rows and the summary row,
\* which lie below row 1 and write every cell once. A ValueError from the
\* header loop leaves the function before any data is written or saved.
WriteResults(res) ==
    LET ordered_combinations == OrderedCombinations(res)
        head == WriteHeaders({}, HeaderList(res))
    IN  IF head.raised THEN head
        ELSE [sheet |-> head.sheet \cup DataCells(res, ordered_combinations)
                            \cup TotalCells(res, ordered_combinations),
              raised |-> FALSE]

\* An exception nobody catches ends the process with status 1.
MainReport ==
    /\ pc = "returned"
    /\ written' = HasResults
    /\ IF HasResults
       THEN LET out == WriteResults(results)
            IN  /\ sheet' = out.sheet
                /\ exit_status' = IF out.raised THEN 1 ELSE exit_status
       ELSE UNCHANGED << sheet, exit_status >>
    /\ pc' = "done"
    /\ UNCHANGED << target_roles, wb, ncols, df, scan_vars, agg_vars, results,
                    raised, env_vars >>

Next ==
    \/ MainCheckFiles
    \/ LoadRoles
    \/ OpenWorkbook
    \/ OpenWorkbookFails
    \/ ScanRow
    \/ CollectRow
    \/ ScanEnd
    \/ AggregateUser
    \/ Finish
    \/ HandleException
    \/ MainReport

Spec == Init /\ [][Next]_vars

(***************************************************************************)
(* A second run of the scan and the aggregation over the same rows and the *)
(* same catalog, in a process of its own, whose hash seed is another one:  *)
(* under the same seed the second run repeats the first step by step.      *)
(***************************************************************************)
HashSeeds == {0, 1}

Rerun ==
    /\ pc = "done"
    /\ run = 1
    /\ df # <<>>
    /\ run' = 2
    /\ prev_results' = results
    /\ \E seed \in HashSeeds \ {hash_seed} : hash_seed' = seed
    /\ pc' = "scan"
    /\ wb' = "open"
    /\ i' = 0
    /\ current_user' = NoneCell
    /\ user_roles' = <<>>
    /\ headers' = {}
    /\ k' = 1
    /\ role_counts' = <<>>
    /\ license_requirements' = <<>>
    /\ combination_types' = <<>>
    /\ results' = EmptyResults
    /\ raised' = FALSE
    /\ written' = FALSE
    /\ exit_status' = 0
    /\ sheet' = {}
    /\ UNCHANGED << target_roles, ncols, df, excel_exists, roles_exists >>

NextRerun == Next \/ Rerun

SpecRerun == Init /\ [][NextRerun]_vars

(***************************************************************************)
(* The writer on its own: main after extract_roles returned an aggregate   *)
(* of up to as many signature groups as five categories allow. The groups  *)
(* are a run of consecutive signatures, in dict order from any start, each *)
(* with one combination of its own (the first with a second one, or not),  *)
(* the counts falling along the ranked sequence.                           *)
(***************************************************************************)
LicenseSets == { Licenses(S) : S \in SUBSET CategorySet }
Signatures == SortedSet({ TypeStr(L) : L \in LicenseSets })
LicensesOf(type_str) == CHOOSE L \in LicenseSets : TypeStr(L) = type_str

GroupStarts == { 1, 12, 23 }

SignatureRun(start, n) ==
    [g \in 1..n |-> Signatures[((start + g - 2) % Len(Signatures)) + 1]]

CombinationOf(type_str) == << "R" >> \o type_str
TwinOf(type_str) == << "Q" >> \o type_str

AggregateOf(start, n, twin) ==
    LET sigs == SignatureRun(start, n)
        extra == IF twin THEN << [k |-> TwinOf(sigs[1]), v |-> 1] >> ELSE <<>>
        extra_licenses ==
            IF twin THEN << [k |-> TwinOf(sigs[1]), v |-> LicensesOf(sigs[1])] >>
            ELSE <<>>
    IN  [sorted_combinations |->
             [g \in 1..n |-> [k |-> CombinationOf(sigs[g]), v |-> (n + 1) - g]]
             \o extra,
         license_requirements |->
             [g \in 1..n |-> [k |-> CombinationOf(sigs[g]),
                              v |-> LicensesOf(sigs[g])]]
             \o extra_licenses,
         combination_types |->
             [g \in 1..n |->
                 [k |-> sigs[g],
                  v |-> << [k |-> CombinationOf(sigs[g]), v |-> (n + 1) - g] >>
                        \o (IF g = 1 THEN extra ELSE <<>>)]]]

WriterInputs ==
    { AggregateOf(start, n, twin) :
        start \in GroupStarts, n \in 1..Len(Signatures), twin \in BOOLEAN }

InitWriter ==
    /\ pc = "returned"
    /\ results \in WriterInputs
    /\ target_roles = <<>>
    /\ wb = "closed"
    /\ ncols = 0
    /\ df = <<>>
    /\ i = 0
    /\ current_user = NoneCell
    /\ user_roles = <<>>
    /\ headers = {}
    /\ k = 1
    /\ role_counts = <<>>
    /\ license_requirements = <<>>
    /\ combination_types = <<>>
    /\ raised = FALSE
    /\ written = FALSE
    /\ excel_exists = TRUE
    /\ roles_exists = TRUE
    /\ exit_status = 0
    /\ hash_seed = 0
    /\ run = 1
    /\ prev_results = EmptyResults
    /\ sheet = {}

NextWriter == MainReport

SpecWriter == InitWriter /\ [][NextWriter]_vars

(***************************************************************************)
(* Vocabulary of the properties.                                           *)
(***************************************************************************)
\* extract_roles ran to its last line and returned.
NormalReturn == pc \in {"returned", "done"} /\ wb = "closed"

\* The positions in user_roles of the users with at least one matched role.
MatchedUsers == { n \in DOMAIN user_roles : user_roles[n].v # <<>> }

\* The matched-role set of the user at position n.
RoleSetOf(n) == Range(user_roles[n].v)

\* The key a role set denotes: its roles in ascending order, joined by ' + '.
KeyOf(S) == Join(PlusSep, SortedSet(S))

\* The users whose matched-role set is S.
UsersWith(S) == { n \in MatchedUsers : RoleSetOf(n) = S }

RECURSIVE SumCounts(_)
SumCounts(items) ==
    IF items = <<>> THEN 0 ELSE Head(items).v + SumCounts(Tail(items))

(***************************************************************************)
(* C1: after the aggregation, every key of counts stands for one single    *)
(* role set S, and its count is the number of users whose matched-role set *)
(* is S: users with different role sets are never counted under one key.   *)
(***************************************************************************)
C1_CountPerExactSet ==
    NormalReturn =>
        \A n \in DOMAIN role_counts :
            \E u \in MatchedUsers :
                /\ role_counts[n].k = KeyOf(RoleSetOf(u))
                /\ role_counts[n].v = Cardinality(UsersWith(RoleSetOf(u)))
                /\ \A w \in MatchedUsers :
                       KeyOf(RoleSetOf(w)) = role_counts[n].k
                           => RoleSetOf(w) = RoleSetOf(u)

(***************************************************************************)
(* C2: two users whose matched-role sets hold the same elements, in        *)
(* whatever order the roles were discovered, get the same key (the roles   *)
(* in ascending order joined by ' + ') and are counted under it together.  *)
(***************************************************************************)
C2_OrderIndependentKey ==
    NormalReturn =>
        \A u \in MatchedUsers :
            /\ DictHas(role_counts, KeyOf(RoleSetOf(u)))
            /\ DictGet(role_counts, KeyOf(RoleSetOf(u)))
                   >= Cardinality(UsersWith(RoleSetOf(u)))
            /\ \A w \in UsersWith(RoleSetOf(u)) :
                   RoleCombination(user_roles[w].v) = RoleCombination(user_roles[u].v)

\* Two users with the same role set, discovered in different orders.
C2_Witness ==
    /\ NormalReturn
    /\ \E u, w \in MatchedUsers :
           /\ RoleSetOf(u) = RoleSetOf(w)
           /\ user_roles[u].v # user_roles[w].v
           /\ DictGet(role_counts, KeyOf(RoleSetOf(u))) = 2

(***************************************************************************)
(* C3: in the result, a category flag of a combination is true exactly     *)
(* when at least one role of the combination has that flag in the catalog. *)
(***************************************************************************)
C3_LicensesAreOrOfRoles ==
    NormalReturn =>
        \A u \in MatchedUsers :
            /\ DictHas(results.license_requirements, KeyOf(RoleSetOf(u)))
            /\ \A c \in CategorySet :
                   DictGet(results.license_requirements, KeyOf(RoleSetOf(u)))[c]
                       <=> \E r \in RoleSetOf(u) : DictGet(target_roles, r)[c]

(***************************************************************************)
(* C4: the counts sum to the number of distinct aliases with at least one  *)
(* matched role: while the aggregation runs the sum is the number of such  *)
(* aliases among the users already processed (each adds 1, an alias with   *)
(* no matched role adds 0), and the returned ranking sums to all of them.  *)
(***************************************************************************)
C4_Conservation ==
    /\ SumCounts(role_counts)
           = Cardinality({ user_roles[n].k : n \in { m \in MatchedUsers : m < k } })
    /\ NormalReturn =>
           SumCounts(results.sorted_combinations)
               = Cardinality({ user_roles[n].k : n \in MatchedUsers })

\* Two users share a combination and a third user has no matched role.
C4_Witness ==
    /\ NormalReturn
    /\ \E n \in DOMAIN role_counts : role_counts[n].v >= 2
    /\ \E n \in DOMAIN user_roles : user_roles[n].v = <<>>

(***************************************************************************)
(* C5: when the aggregation is over, every key of counts is in exactly one *)
(* signature group, the group of the signature of its licenses, with the   *)
(* final count; and no group holds a key that counts lacks.                *)
(***************************************************************************)
C5_Partition ==
    NormalReturn =>
        /\ \A n \in DOMAIN role_counts :
               LET key == role_counts[n].k
                   groups == { g \in DOMAIN combination_types :
                                 DictHas(combination_types[g].v, key) }
               IN  /\ Cardinality(groups) = 1
                   /\ \A g \in groups :
                          /\ combination_types[g].k
                                 = TypeStr(DictGet(license_requirements, key))
                          /\ DictGet(combination_types[g].v, key) = role_counts[n].v
        /\ \A g \in DOMAIN combination_types :
               DictKeys(combination_types[g].v) \subseteq DictKeys(role_counts)

(***************************************************************************)
(* C6: when the row checked for 'Security Role' does not match, the scan   *)
(* goes on without an error and every later row whose column 3 is 'Alias', *)
(* from the row after the block's alias row on (the row that failed the    *)
(* check included), is recognized as a block header.                       *)
(***************************************************************************)
C6_MalformedBlockRecovery ==
    pc = "aggregate" =>
        \A h \in headers :
            (SecHeaderIndex(h) < Len(df)
             /\ ~IsSecurityRoleHeader(df[SecHeaderIndex(h) + 1]))
                => \A j \in (h + 2)..(Len(df) - 1) :
                       IsAliasHeader(df[j + 1]) => j \in headers

(***************************************************************************)
(* C7: in the role loop a row whose column 3 is 'Alias' ends the block,    *)
(* adds no role, and is the row the outer loop examines next: the cursor   *)
(* stays on it, and the outer loop then logs it as a header and takes the  *)
(* alias of the row below it as the current user.                          *)
(***************************************************************************)
C7_BlockEndNoSkip ==
    [][ /\ (pc = "collect" /\ i < Len(df) /\ IsAliasHeader(df[i + 1]))
            => (pc' = "scan" /\ i' = i /\ user_roles' = user_roles
                /\ headers' = headers)
        /\ (pc = "scan" /\ i < Len(df) /\ ncols > 3 /\ IsAliasHeader(df[i + 1]))
            => (/\ i \in headers'
                /\ i + 1 < Len(df) =>
                       /\ current_user' = StrCell(PyStr(df[i + 2].c3))
                       /\ DictHas(user_roles', PyStr(df[i + 2].c3)))
      ]_vars

\* Two back-to-back blocks, the second header found by the role loop of the
\* first, each with its own user and roles.
C7_Witness ==
    /\ pc = "aggregate"
    /\ \E h \in headers :
           /\ h + 4 \in headers
           /\ h + 7 <= Len(df)
           /\ IsSecurityRoleHeader(df[h + 3])
           /\ IsSecurityRoleHeader(df[h + 7])
           /\ PyStr(df[h + 2].c3) # PyStr(df[h + 6].c3)
           /\ DictGet(user_roles, PyStr(df[h + 2].c3)) # <<>>
           /\ DictGet(user_roles, PyStr(df[h + 6].c3)) # <<>>

(***************************************************************************)
(* C8, as claimed: for a header at row h with its alias row h+1, the scan  *)
(* enters the role loop exactly when the row two rows after the alias row  *)
(* (row h+3) has 'Security Role' in column 5.                              *)
(***************************************************************************)
C8_SecondaryHeaderTwoAfterAlias ==
    [][ (pc = "scan" /\ i + 1 < Len(df) /\ ncols >= 6 /\ IsAliasHeader(df[i + 1]))
            => (pc' = "collect"
                    <=> (i + 3 < Len(df) /\ IsSecurityRoleHeader(df[i + 4])))
      ]_vars

(***************************************************************************)
(* C8, amended: the row checked is the row right after the alias row (row  *)
(* h+2, two rows after the header). The scan enters the role loop exactly  *)
(* when that row exists and has 'Security Role' in column 5, with the      *)
(* cursor on the row after it; otherwise it goes back to seeking a header, *)
(* unless the sheet has fewer than six columns and the read of column 5 of *)
(* that row raises.                                                        *)
(***************************************************************************)
C8_SecondaryHeaderAfterAlias ==
    [][ (pc = "scan" /\ i + 1 < Len(df) /\ ncols > 3 /\ IsAliasHeader(df[i + 1]))
            => IF i + 2 < Len(df) /\ ncols <= 5
               THEN pc' = "except"
               ELSE /\ pc' \in {"collect", "scan"}
                    /\ pc' = "collect"
                           <=> (i + 2 < Len(df) /\ IsSecurityRoleHeader(df[i + 3]))
                    /\ i' = i + 3
      ]_vars

\* The role loop was entered from a header whose row h+2 is the role header
\* while row h+3 is not.
C8_Witness ==
    /\ pc = "collect"
    /\ \E h \in headers :
           /\ i = h + 3
           /\ IsSecurityRoleHeader(df[h + 3])
           /\ h + 3 < Len(df)
           /\ ~IsSecurityRoleHeader(df[h + 4])

(***************************************************************************)
(* C9: once extract_roles has returned after opening the workbook, the     *)
(* workbook handle is closed.                                              *)
(***************************************************************************)
C9_WorkbookClosedOnReturn ==
    (pc \in {"returned", "done"} /\ wb # "unopened") => wb = "closed"

(***************************************************************************)
(* C10: the writer is called only when there is at least one combination:  *)
(* with an empty catalog, with no data rows, with no user with a matched   *)
(* role, and after an error caught in extract_roles, extract_roles returns *)
(* ([], {}, {}) and main does not call the writer.                         *)
(***************************************************************************)
C10_WriterOnlyWithResults ==
    /\ written => (pc = "done" /\ results.sorted_combinations # <<>>)
    /\ (/\ pc \in {"returned", "done"}
        /\ \/ target_roles = <<>>
           \/ wb # "unopened" /\ Len(df) = 0
           \/ raised
           \/ NormalReturn /\ MatchedUsers = {})
           => (results = EmptyResults /\ ~written)

\* A run over a report with users, none of them with a matched role.
C10_Witness ==
    /\ pc = "done"
    /\ NormalReturn
    /\ user_roles # <<>>
    /\ MatchedUsers = {}
    /\ results = EmptyResults
    /\ ~written

(***************************************************************************)
(* The blocks of the report, read off the rows.                            *)
(***************************************************************************)
\* The scan is over and raised nothing.
ScanOver == pc = "aggregate" \/ NormalReturn

\* The headers the scan recognized that have an alias row below them.
UserHeaders == { h \in headers : h + 1 < Len(df) }

\* The alias of the block whose header is row h.
BlockUser(h) == PyStr(df[h + 2].c3)

\* The rows read by the role loop of the block whose header is row h: from
\* the row after a matching role header up to the next 'Alias' row.
BlockRows(h) ==
    IF h + 2 < Len(df) /\ IsSecurityRoleHeader(df[h + 3])
    THEN { j \in (h + 3)..(Len(df) - 1) :
             \A m \in (h + 3)..j : ~IsAliasHeader(df[m + 1]) }
    ELSE {}

\* The trimmed comma-separated pieces of a cell.
PiecesOf(cell) == { Strip(Split(cell.s)[n]) : n \in DOMAIN Split(cell.s) }

\* The catalog roles among the pieces of the string cells of column 5 of the
\* rows of one block.
BlockRoles(h) ==
    UNION { PiecesOf(df[j + 1].c5) \cap DictKeys(target_roles) :
              j \in { m \in BlockRows(h) : df[m + 1].c5.isstr } }

\* The same, over all the blocks of one alias.
ExpectedRoles(alias) ==
    UNION { BlockRoles(h) : h \in { g \in UserHeaders : BlockUser(g) = alias } }

(***************************************************************************)
(* C11: at the end of the scan each user's role set is exactly the set of  *)
(* trimmed comma-separated pieces, from the string cells of column 5 of    *)
(* the rows read by the role loop in the user's own blocks, that are keys  *)
(* of the catalog; every role of a user is a catalog key; and a user with  *)
(* no matched role produces no combination.                                *)
(***************************************************************************)
C11_RoleMatching ==
    /\ ScanOver =>
           /\ DictKeys(user_roles) = { BlockUser(h) : h \in UserHeaders }
           /\ \A n \in DOMAIN user_roles :
                  /\ RoleSetOf(n) = ExpectedRoles(user_roles[n].k)
                  /\ RoleSetOf(n) \subseteq DictKeys(target_roles)
    /\ NormalReturn =>
           /\ DictKeys(role_counts)
                  = { KeyOf(RoleSetOf(n)) : n \in MatchedUsers }
           /\ <<>> \notin DictKeys(role_counts)

\* The string cells of column 5 read by the role loop in the blocks of one
\* alias.
CellsRead(alias) ==
    { df[j + 1].c5 : j \in { m \in 0..(Len(df) - 1) :
        /\ df[m + 1].c5.isstr
        /\ \E h \in UserHeaders : BlockUser(h) = alias /\ m \in BlockRows(h) } }

\* A user whose cells hold a padded piece that matches only once trimmed and
\* a piece the catalog lacks, and a user with no matched role at all.
C11_Witness ==
    /\ NormalReturn
    /\ \E n \in MatchedUsers :
           /\ \E c \in CellsRead(user_roles[n].k) :
                  \E p \in Range(Split(c.s)) :
                      /\ Strip(p) # p
                      /\ Strip(p) \in RoleSetOf(n)
                      /\ ~DictHas(target_roles, p)
           /\ \E c \in CellsRead(user_roles[n].k) :
                  ~(PiecesOf(c) \subseteq DictKeys(target_roles))
    /\ \E n \in DOMAIN user_roles : user_roles[n].v = <<>>

\* The first header row of the blocks of an alias.
FirstHeader(alias) ==
    CHOOSE h \in UserHeaders :
        /\ BlockUser(h) = alias
        /\ \A g \in UserHeaders : BlockUser(g) = alias => h <= g

\* The matched users whose role set is joined into a given key.
UsersUnder(key) == { n \in MatchedUsers : KeyOf(RoleSetOf(n)) = key }

(***************************************************************************)
(* C12: an alias is registered once, in first-seen order; every block of   *)
(* the alias adds its matched roles to the set the alias already has and   *)
(* none resets it; and in the aggregation the user is counted exactly once,*)
(* under the key of the union of the roles of all its blocks.              *)
(***************************************************************************)
C12_AliasesAccumulate ==
    /\ ScanOver =>
           /\ \A m, n \in DOMAIN user_roles :
                  /\ user_roles[m].k = user_roles[n].k => m = n
                  /\ m < n => FirstHeader(user_roles[m].k)
                                  < FirstHeader(user_roles[n].k)
           /\ \A h \in UserHeaders :
                  BlockRoles(h)
                      \subseteq Range(DictGet(user_roles, BlockUser(h)))
    /\ NormalReturn =>
           \A n \in MatchedUsers :
               LET key == KeyOf(ExpectedRoles(user_roles[n].k))
               IN  /\ DictHas(role_counts, key)
                   /\ DictGet(role_counts, key) = Cardinality(UsersUnder(key))

\* An alias with two blocks, each of which brings a role the other lacks,
\* counted once under the key of the three roles together.
C12_Witness ==
    /\ NormalReturn
    /\ \E g, h \in UserHeaders :
           /\ g < h
           /\ BlockUser(g) = BlockUser(h)
           /\ BlockRoles(g) \ BlockRoles(h) # {}
           /\ BlockRoles(h) \ BlockRoles(g) # {}
           /\ DictGetOr(role_counts,
                        KeyOf(BlockRoles(g) \cup BlockRoles(h)), 0) = 1

(***************************************************************************)
(* C13: the ranked sequence holds every (key, count) pair of counts        *)
(* exactly once, by count descending, and pairs of equal count stay in the *)
(* order in which their keys were inserted into counts.                    *)
(***************************************************************************)
C13_RankingStable ==
    NormalReturn =>
        LET ranked == results.sorted_combinations
        IN  /\ Len(ranked) = Len(role_counts)
            /\ \A n \in DOMAIN role_counts :
                   Cardinality({ m \in DOMAIN ranked :
                                   ranked[m] = role_counts[n] }) = 1
            /\ \A m, n \in DOMAIN ranked :
                   m < n =>
                       /\ ranked[m].v >= ranked[n].v
                       /\ ranked[m].v = ranked[n].v =>
                              DictIndex(role_counts, ranked[m].k)
                                  < DictIndex(role_counts, ranked[n].k)

\* A ranking that moved a later key of a higher count ahead of an earlier
\* key.
C13_Witness ==
    /\ NormalReturn
    /\ \E m, n \in DOMAIN results.sorted_combinations :
           LET ranked == results.sorted_combinations
           IN  /\ m < n
               /\ ranked[m].v > ranked[n].v
               /\ DictIndex(role_counts, ranked[m].k)
                      > DictIndex(role_counts, ranked[n].k)

\* The row at which the current iteration of the outer loop started, while
\* the role loop runs: the last header recognized.
LastHeader == CHOOSE h \in headers : \A g \in headers : g <= h

\* The row indices the next step of the scan reads.
RowsRead ==
    IF pc = "scan" /\ i < Len(df)
    THEN {i} \cup
         ( IF ncols > 3 /\ IsAliasHeader(df[i + 1]) /\ i + 1 < Len(df)
           THEN {i + 1} \cup ( IF SecHeaderIndex(i) < Len(df)
                               THEN {SecHeaderIndex(i)} ELSE {} )
           ELSE {} )
    ELSE IF pc = "collect" /\ i < Len(df) THEN {i}
    ELSE {}

\* The input ends in the middle of a block: the header or the alias row is
\* the last row, or the rows end while the role loop runs.
EndsInBlock ==
    \/ /\ pc = "scan" /\ i < Len(df) /\ ncols > 3
       /\ IsAliasHeader(df[i + 1])
       /\ SecHeaderIndex(i) >= Len(df)
    \/ pc = "collect" /\ i >= Len(df)

\* Every user keeps the roles collected so far.
RolesKept ==
    \A n \in DOMAIN user_roles :
        n \in DOMAIN user_roles' /\ user_roles'[n] = user_roles[n]

\* One step of the scan, as the cursor sees it.
CursorAdvances ==
    /\ pc = "scan" /\ pc' \in {"scan", "collect"} => i' > i
    /\ pc = "collect" /\ pc' = "collect" => i' > i
    /\ pc = "collect" /\ pc' = "scan" => i' > LastHeader
    /\ EndsInBlock => pc' # "except" /\ RolesKept

\* The phases of the program, later phases ranking lower.
Rank(p) ==
    CASE p = "main" -> 7
      [] p = "extract" -> 6
      [] p = "open" -> 5
      [] p \in {"scan", "collect"} -> 4
      [] p = "aggregate" -> 3
      [] p = "except" -> 2
      [] p = "returned" -> 1
      [] p = "done" -> 0

\* What is left to do within a phase: twice the rows from the cursor to the
\* end of the table (and one more inside the role loop, which may hand the
\* row it stopped at back to the outer loop), or the users still to fold.
Remaining ==
    CASE pc \in {"scan", "collect"} ->
             2 * ((Len(df) + 2) - i) + (IF pc = "collect" THEN 1 ELSE 0)
      [] pc = "aggregate" -> (Len(user_roles) + 1) - k
      [] OTHER -> 0

\* A step moves to a later phase or leaves less to do in its phase.
Decreases ==
    \/ Rank(pc') < Rank(pc)
    \/ Rank(pc') = Rank(pc) /\ Remaining' < Remaining

(***************************************************************************)
(* C14: the scan terminates on every finite table: every step leaves      *)
(* strictly less to do, so a run has no more steps than its table allows;  *)
(* every iteration of the outer loop (and of the role loop) leaves the     *)
(* cursor strictly greater than at its start; no row at an index >= the    *)
(* number of rows is read; and when the input ends in the middle of a      *)
(* block the step raises nothing and every user keeps the roles collected  *)
(* so far, on a sheet of six columns nothing being raised at all.          *)
(***************************************************************************)
C14_ScanTerminates ==
    /\ [][Decreases]_vars
    /\ [](pc \in {"scan", "collect"} =>
              NextRow(i) > i /\ SecHeaderIndex(i) > i /\ AfterBreak(i + 1) > i)
    /\ [](\A r \in RowsRead : r < Len(df))
    /\ [](pc \in {"scan", "collect"} => i <= Len(df) + 1)
    /\ [](raised /\ wb = "open" => ncols < 6)
    /\ [][CursorAdvances]_vars

\* The alias row is the last row of the table: the run ended normally and
\* the user of that block has the roles of an earlier block.
C14_Witness ==
    /\ pc = "done"
    /\ NormalReturn
    /\ Len(df) >= 2
    /\ Len(df) - 2 \in headers
    /\ DictGet(user_roles, BlockUser(Len(df) - 2)) # <<>>

(***************************************************************************)
(* C15: the command exits with a non-zero status when the license-report   *)
(* path does not exist, when the role-catalog path does not exist, or when *)
(* the catalog yields zero roles.                                          *)
(***************************************************************************)
C15_NonZeroExitOnBadInput ==
    /\ pc = "done"
    /\ ~excel_exists \/ ~roles_exists \/ target_roles = CatalogEmpty
    => exit_status # 0

(***************************************************************************)
(* C16: a second run of the scan and the aggregation over the same rows    *)
(* and the same catalog, whatever order its sets hand out their elements   *)
(* in, returns what the first run returned: the same ranked sequence of    *)
(* (combination, count) pairs, the same license_requirements and the same  *)
(* combination_types.                                                      *)
(***************************************************************************)
C16_Deterministic ==
    run = 2 /\ pc \in {"returned", "done"} =>
        /\ results.sorted_combinations = prev_results.sorted_combinations
        /\ results.license_requirements = prev_results.license_requirements
        /\ results.combination_types = prev_results.combination_types

\* A second run, under another hash seed, that counted a user of two roles
\* or more and ranked two combinations.
C16_Witness ==
    /\ run = 2
    /\ pc = "done"
    /\ hash_seed # 0
    /\ NormalReturn
    /\ Len(results.sorted_combinations) >= 2
    /\ \E n \in MatchedUsers :
           SetOrder(user_roles[n].v) # Sorted(user_roles[n].v)

\* The column of the g-th signature group in lexicographic order, g counted
\* from 1: column I is the ninth.
ColumnI == OrdFromA("I") + 1
GroupColumnOf(g) == ColumnI + (g - 1)

\* The signature group of a combination: the signature of its licenses.
OwnGroup(combination) ==
    TypeStr(DictGet(results.license_requirements, combination))

(***************************************************************************)
(* C17: when the report has been written, the sheet has one header per     *)
(* signature group, the groups in lexicographic order from column I on,    *)
(* and the data row of every combination holds its count in the column of  *)
(* its own group and nothing in the column of any other group.             *)
(***************************************************************************)
C17_SignatureColumns ==
    pc = "done" /\ results.combination_types # <<>> =>
        LET groups == Sorted(KeyList(results.combination_types))
            ranked == results.sorted_combinations
        IN  /\ exit_status = 0
            /\ \A g \in DOMAIN groups :
                   Cell(1, GroupColumnOf(g), TextValue(groups[g])) \in sheet
            /\ Cardinality({ c \in sheet : c.row = 1 /\ c.col >= ColumnI })
                   = Len(groups)
            /\ \A r \in DOMAIN ranked, g \in DOMAIN groups :
                   IF groups[g] = OwnGroup(ranked[r].k)
                   THEN Cell(r + 1, GroupColumnOf(g), NumValue(ranked[r].v))
                            \in sheet
                   ELSE \A c \in sheet :
                            ~(c.row = r + 1 /\ c.col = GroupColumnOf(g))

====
